---- MODULE Spec2Model ----
(***************************************************************************)
(* zstd synchronisation layer over the kernel's k_mutex and k_mem_slab:    *)
(* zstd::mutex, recursive_mutex, timed_mutex and recursive_timed_mutex     *)
(* (src/lib/zstd/src/mutex.cpp, src/include/zstd/mutex.h).                 *)
(*                                                                         *)
(* One mutex object of one of the four classes is shared by NumThreads     *)
(* threads.  Every member function is split at the points where another    *)
(* thread can run: the read of lock_count, the read of owner, the kernel   *)
(* call (before which the duration is converted), the end of a kernel      *)
(* wait.  The kernel primitives are not part of these sources; they are    *)
(* modelled as ownership-counted locks with a FIFO wait queue and          *)
(* millisecond timeouts.  The slab behind operator new / operator delete   *)
(* is modelled on its own, in SlabSpec.                                    *)
(***************************************************************************)
EXTENDS Integers, Sequences, FiniteSets

\* ------------------------------------------------------------------ bounds
NumThreads == 2
MaxDepth == 2
MaxTime == 2
SlabMaxCount == 2
NumHandles == 2
ThreadMaxCount == 2

\* --------------------------------------------------------------- constants
K_NO_WAIT == 0
K_FOREVER == -1
EDEADLK == 35
EBUSY == 16
EAGAIN == 11
ENOMEM == 12
EINVAL == 22

Threads == 1..NumThreads
NoThread == 0

Kinds == {"mutex", "recursive_mutex", "timed_mutex", "recursive_timed_mutex"}
\* timed_mutex : public mutex, recursive_timed_mutex : public recursive_mutex
DerivedFromMutex == {"mutex", "timed_mutex"}
DerivedFromRecursiveMutex == {"recursive_mutex", "recursive_timed_mutex"}
TimedKinds == {"timed_mutex", "recursive_timed_mutex"}

\* ------------------------------------------------- 64-bit values as limbs
\* A 64-bit word is <<a, b, c, d>>, four 16-bit limbs, most significant
\* first; a signed count is its two's complement.
Limb == 2^16
HalfLimb == 2^15

ToI64(n) ==
    << (((n \div Limb) \div Limb) \div Limb) % Limb,
       ((n \div Limb) \div Limb) % Limb,
       (n \div Limb) % Limb,
       n % Limb >>

IsNegative(v) == v[1] >= HalfLimb

\* the word is a non-negative number below 2^31, or a negative one above -2^31
FitsInt(v) ==
    \/ v[1] = 0 /\ v[2] = 0 /\ v[3] < HalfLimb
    \/ v[1] = Limb - 1 /\ v[2] = Limb - 1 /\ v[3] >= HalfLimb

AsInt(v) ==
    IF v[3] < HalfLimb THEN v[3] * Limb + v[4]
                       ELSE (v[3] - Limb) * Limb + v[4]

\* C++ integer division truncates toward zero
TruncDiv(a, b) == IF a >= 0 THEN a \div b ELSE -((-a) \div b)

\* duration_cast<milliseconds>(d).count() for d = [count, period]
duration_cast_milliseconds(d) ==
    IF d.period = "ms" THEN d.count
    ELSE ToI64(TruncDiv(AsInt(d.count), 1000))

\* u64_t ms = <signed count>: the same 64 bits
to_u64(v) == v

\* static_cast<u32_t>(ms): the low 32 bits, <<c, d>>
static_cast_u32(v) == << v[3], v[4] >>

\* the 32-bit word as the kernel's 32-bit timeout argument (milliseconds,
\* K_FOREVER is the all-ones word)
as_timeout(w) ==
    IF w[1] < HalfLimb THEN w[1] * Limb + w[2]
                       ELSE (w[1] - Limb) * Limb + w[2]

\* u64_t ms = duration_cast<milliseconds>(rel_time).count();
\* k_mutex_lock(m_mtx_ptr, static_cast<u32_t>(ms))
DurationToTimeout(d) ==
    as_timeout(static_cast_u32(to_u64(duration_cast_milliseconds(d))))

\* ------------------------------------------------------------------ inputs
NoReq == [count |-> ToI64(0), period |-> "none", abs |-> 0]
Rel(c, p) == [count |-> c, period |-> p, abs |-> 0]
Abs(a) == [count |-> ToI64(0), period |-> "abs", abs |-> a]

\* 2^32 + 2 milliseconds
BeyondU32 == << 0, 1, 0, 2 >>

RelDurations ==
    {Rel(ToI64(n), "ms") : n \in {-1, 0, 1}}
    \cup {Rel(BeyondU32, "ms")}
    \cup {Rel(ToI64(n), "us") : n \in {1, 1500}}

AbsTimes == {0, MaxTime}

VARIABLES
    kind,        \* class of the mutex object
    lock_count,  \* k_mutex.lock_count
    owner,       \* k_mutex.owner (NoThread = NULL)
    wait_q,      \* k_mutex.wait_q: threads pended in k_mutex_lock, in order
    pc,          \* where each thread is
    op,          \* member function the thread is in
    req,         \* its rel_time / abs_time argument
    timeout,     \* argument passed to the kernel call
    deadline,    \* clock value at which the kernel wait expires
    held,        \* successful acquisitions the thread has not yet unlocked
    returned,    \* the calls that returned in the last step, with their results
    now,         \* steady_clock, in milliseconds
    slab_free,   \* mutex_slab: free blocks, head first
    obj,         \* dynamically created mutex objects
    new_result,  \* what the last operator new returned or threw
    alive,       \* the zstd::thread objects that are constructed
    m_id,        \* thread::m_id of each of them (NoThread: no thread)
    joining,     \* the thread objects with a join() in progress
    k_state,     \* each kernel thread of the stack pool
    k_detached,  \* the kernel threads that were detached
    t_result,    \* the thread member function that returned in the last step
    terminated   \* the program was ended by a fatal error

vars == << kind, lock_count, owner, wait_q, pc, op, req, timeout, deadline,
           held, returned, now, slab_free, obj, new_result,
           alive, m_id, joining, k_state, k_detached, t_result, terminated >>

slabVars == << slab_free, obj, new_result >>

threadVars == << alive, m_id, joining, k_state, k_detached, t_result, terminated >>

Handles == 1..NumHandles
KThreads == 1..ThreadMaxCount
\* what a member function of thread object h gave its caller (src: the
\* thread object moved from or swapped with)
TMove(o, h, src, r) == [op |-> o, h |-> h, src |-> src, ret |-> r]
TRes(o, h, r) == TMove(o, h, 0, r)
NoTRes == TRes("none", 0, "none")

\* what a call gave its caller: ret and the code of a thrown system_error;
\* rv is the value of the local rv of the call (0 when it made no kernel call)
Res(o, r, c) == [op |-> o, ret |-> r, code |-> c, rv |-> 0]
NoReturns == [x \in {} |-> Res("none", "none", 0)]


Init ==
    /\ kind \in Kinds
    /\ lock_count = 0                 \* k_mutex_init
    /\ owner = NoThread
    /\ wait_q = << >>
    /\ pc = [t \in Threads |-> "idle"]
    /\ op = [t \in Threads |-> "none"]
    /\ req = [t \in Threads |-> NoReq]
    /\ timeout = [t \in Threads |-> 0]
    /\ deadline = [t \in Threads |-> 0]
    /\ held = [t \in Threads |-> 0]
    /\ returned = NoReturns
    /\ now = 0
    /\ slab_free = [i \in 1..SlabMaxCount |-> i]
    /\ obj = [o \in 1..(SlabMaxCount + 1) |-> [ptr |-> 0, type |-> "none"]]
    /\ new_result = "none"
    /\ alive = [h \in Handles |-> FALSE]
    /\ m_id = [h \in Handles |-> NoThread]
    /\ joining = [h \in Handles |-> FALSE]
    /\ k_state = [k \in KThreads |-> "free"]
    /\ k_detached = [k \in KThreads |-> FALSE]
    /\ t_result = NoTRes
    /\ terminated = FALSE

\* ------------------------------------------------------- kernel primitives
\* a positive value is no return code: the caller is pended on wait_q
PENDED == 1

\* k_mutex_lock(mutex, timeout) called by thread t; rv is what it returns
k_mutex_lock(t, tmo, rv) ==
    \/ /\ lock_count = 0 \/ owner = t
       /\ rv = 0
       /\ lock_count' = lock_count + 1
       /\ owner' = t
       /\ UNCHANGED wait_q
    \/ /\ lock_count > 0 /\ owner # t
       /\ tmo = K_NO_WAIT
       /\ rv = -EBUSY
       /\ UNCHANGED << lock_count, owner, wait_q >>
    \/ /\ lock_count > 0 /\ owner # t
       /\ tmo # K_NO_WAIT
       /\ rv = PENDED
       /\ wait_q' = Append(wait_q, t)
       /\ UNCHANGED << lock_count, owner >>

\* clock value at which a wait of tmo milliseconds started now expires
Expiry(tmo) ==
    IF tmo = K_FOREVER THEN K_FOREVER
    ELSE IF tmo < 0 THEN now
    ELSE now + tmo

Expired(t) == deadline[t] # K_FOREVER /\ now >= deadline[t]

Remove(q, t) == SelectSeq(q, LAMBDA x : x # t)

\* k_mutex_unlock(mutex) called by thread t; w is the waiter that becomes
\* the owner (NoThread: none)
k_mutex_unlock(t, w) ==
    \/ /\ lock_count = 0 \/ owner # t       \* not the owner: rejected
       /\ w = NoThread
       /\ UNCHANGED << lock_count, owner, wait_q >>
    \/ /\ lock_count > 1 /\ owner = t
       /\ w = NoThread
       /\ lock_count' = lock_count - 1
       /\ UNCHANGED << owner, wait_q >>
    \/ /\ lock_count = 1 /\ owner = t /\ wait_q = << >>
       /\ w = NoThread
       /\ lock_count' = 0
       /\ owner' = NoThread
       /\ UNCHANGED wait_q
    \/ /\ lock_count = 1 /\ owner = t /\ wait_q # << >>
       /\ w = Head(wait_q)
       /\ wait_q' = Tail(wait_q)
       /\ owner' = w
       /\ UNCHANGED lock_count

\* ------------------------------------------------------ duration conversion
TimedOps == {"try_lock_for", "try_lock_until"}
AcquireOps == {"lock", "try_lock"} \cup TimedOps

\* the duration the call converts: rel_time, or abs_time - steady_clock::now()
Requested(r) ==
    IF r.period = "abs" THEN Rel(ToI64(r.abs - now), "ms") ELSE r

\* u64_t ms = duration_cast<milliseconds>(...).count(); static_cast<u32_t>(ms):
\* the local ms of a timed member function once its ownership check has passed
Converted(o, r) ==
    IF o \in TimedOps THEN DurationToTimeout(Requested(r)) ELSE 0

\* ------------------------------------------------------------ bookkeeping
\* the calls of the threads in DOMAIN fin return (or throw) fin[t]
Returns(fin) ==
    /\ pc' = [x \in Threads |-> IF x \in DOMAIN fin THEN "idle" ELSE pc[x]]
    /\ op' = [x \in Threads |-> IF x \in DOMAIN fin THEN "none" ELSE op[x]]
    /\ req' = [x \in Threads |-> IF x \in DOMAIN fin THEN NoReq ELSE req[x]]
    /\ timeout' = [x \in Threads |-> IF x \in DOMAIN fin THEN 0 ELSE timeout[x]]
    /\ deadline' = [x \in Threads |-> IF x \in DOMAIN fin THEN 0 ELSE deadline[x]]
    /\ returned' = fin

One(t, r) == [x \in {t} |-> r]

\* thread t enters member function o with argument r, and goes to p
Enter(t, o, r, p) ==
    /\ pc[t] = "idle"
    /\ op' = [op EXCEPT ![t] = o]
    /\ req' = [req EXCEPT ![t] = r]
    /\ pc' = [pc EXCEPT ![t] = p]
    /\ timeout' = [timeout EXCEPT ![t] = IF p = "kcall" THEN Converted(o, r) ELSE 0]
    /\ returned' = NoReturns
    /\ UNCHANGED << kind, lock_count, owner, wait_q, deadline, held, now >>
    /\ UNCHANGED << slabVars, threadVars >>

\* ---------------------------------------------------- return value mapping
\* if (rv != 0) throw system_error(-rv, system_category());
lock_return(rv) ==
    IF rv # 0 THEN Res("lock", "system_error", -rv) ELSE Res("lock", "void", 0)

\* mutant: the result of the kernel call is not looked at
try_lock_return_always_true(o, rv) == Res(o, "true", 0)

\* mutant: false is returned whatever the kernel call returned
try_lock_return_always_false(o, rv) == Res(o, "false", 0)

\* mutant: the test of rv is inverted
try_lock_return_swapped(o, rv) ==
    IF rv # 0 THEN Res(o, "true", 0) ELSE Res(o, "false", 0)

\* if (rv == 0) return true; else return false;
try_lock_return(o, rv) ==
    IF rv = 0 THEN Res(o, "true", 0) ELSE Res(o, "false", 0)

ReturnOf(o, rv) ==
    [(IF o = "lock" THEN lock_return(rv) ELSE try_lock_return(o, rv))
        EXCEPT !.rv = rv]

\* what the caller holds after a call that returned r
HeldAfter(h, r) == IF r.ret \in {"void", "true"} THEN h + 1 ELSE h

\* ------------------------------------------------ zstd::mutex, timed_mutex
\* mutex::lock: the read of lock_count in the ownership check
mutex_lock(t) ==
    /\ kind \in DerivedFromMutex
    /\ Enter(t, "lock", NoReq, IF lock_count > 0 THEN "chk_owner" ELSE "kcall")

\* mutex::try_lock: the read of lock_count in the ownership check
mutex_try_lock(t) ==
    /\ kind \in DerivedFromMutex
    /\ Enter(t, "try_lock", NoReq, IF lock_count > 0 THEN "chk_owner" ELSE "kcall")

\* timed_mutex::try_lock_for
timed_mutex_try_lock_for(t, d) ==
    /\ kind = "timed_mutex"
    /\ Enter(t, "try_lock_for", d, IF lock_count > 0 THEN "chk_owner" ELSE "kcall")

\* timed_mutex::try_lock_until
timed_mutex_try_lock_until(t, a) ==
    /\ kind = "timed_mutex"
    /\ Enter(t, "try_lock_until", Abs(a), IF lock_count > 0 THEN "chk_owner" ELSE "kcall")

\* mutant: the comparison with the owner is left out
check_owner_never_throws(t) ==
    /\ pc[t] = "chk_owner"
    /\ pc' = [pc EXCEPT ![t] = "kcall"]
    /\ timeout' = [timeout EXCEPT ![t] = Converted(op[t], req[t])]
    /\ returned' = NoReturns
    /\ UNCHANGED << op, req, deadline >>
    /\ UNCHANGED << kind, lock_count, owner, wait_q, held, now >>
    /\ UNCHANGED << slabVars, threadVars >>

\* mutant: the check throws on lock_count > 0 alone, whoever the owner is
check_owner_throws_when_locked(t) ==
    /\ pc[t] = "chk_owner"
    /\ Returns(One(t, Res(op[t], "system_error", EDEADLK)))
    /\ UNCHANGED << kind, lock_count, owner, wait_q, held, now >>
    /\ UNCHANGED << slabVars, threadVars >>

\* ... && (k_current_get() == m_mtx_ptr->owner)) throw system_error(EDEADLK, ...)
check_owner(t) ==
    /\ pc[t] = "chk_owner"
    /\ IF owner = t
       THEN /\ Returns(One(t, Res(op[t], "system_error", EDEADLK)))
       ELSE /\ pc' = [pc EXCEPT ![t] = "kcall"]
            /\ timeout' = [timeout EXCEPT ![t] = Converted(op[t], req[t])]
            /\ returned' = NoReturns
            /\ UNCHANGED << op, req, deadline >>
    /\ UNCHANGED << kind, lock_count, owner, wait_q, held, now >>
    /\ UNCHANGED << slabVars, threadVars >>

\* ------------------------------ zstd::recursive_mutex, recursive_timed_mutex
\* mutant: recursive_mutex::lock makes the ownership check of mutex::lock
recursive_mutex_lock_checks_owner(t) ==
    /\ kind \in DerivedFromRecursiveMutex
    /\ held[t] < MaxDepth
    /\ Enter(t, "lock", NoReq, IF lock_count > 0 THEN "chk_owner" ELSE "kcall")

\* recursive_mutex::lock
recursive_mutex_lock(t) ==
    /\ kind \in DerivedFromRecursiveMutex
    /\ held[t] < MaxDepth
    /\ Enter(t, "lock", NoReq, "kcall")

\* recursive_mutex::try_lock
recursive_mutex_try_lock(t) ==
    /\ kind \in DerivedFromRecursiveMutex
    /\ held[t] < MaxDepth
    /\ Enter(t, "try_lock", NoReq, "kcall")

\* mutant: recursive_timed_mutex::try_lock_for makes the ownership check of
\* timed_mutex::try_lock_for
recursive_timed_mutex_try_lock_for_checks_owner(t, d) ==
    /\ kind = "recursive_timed_mutex"
    /\ held[t] < MaxDepth
    /\ Enter(t, "try_lock_for", d, IF lock_count > 0 THEN "chk_owner" ELSE "kcall")

\* recursive_timed_mutex::try_lock_for
recursive_timed_mutex_try_lock_for(t, d) ==
    /\ kind = "recursive_timed_mutex"
    /\ held[t] < MaxDepth
    /\ Enter(t, "try_lock_for", d, "kcall")

\* recursive_timed_mutex::try_lock_until
recursive_timed_mutex_try_lock_until(t, a) ==
    /\ kind = "recursive_timed_mutex"
    /\ held[t] < MaxDepth
    /\ Enter(t, "try_lock_until", Abs(a), "kcall")

\* ------------------------------------------------------------ kernel calls
\* mutant: try_lock passes K_FOREVER where the code passes K_NO_WAIT
TimeoutArg_try_lock_waits(t) ==
    IF op[t] \in {"lock", "try_lock"} THEN K_FOREVER ELSE timeout[t]

\* mutant: lock passes K_NO_WAIT where the code passes K_FOREVER
TimeoutArg_lock_no_wait(t) ==
    IF op[t] \in {"lock", "try_lock"} THEN K_NO_WAIT ELSE timeout[t]

\* the timeout argument of the member function's k_mutex_lock call
TimeoutArg(t) ==
    IF op[t] = "lock" THEN K_FOREVER
    ELSE IF op[t] = "try_lock" THEN K_NO_WAIT
    ELSE timeout[t]

\* int rv = k_mutex_lock(m_mtx_ptr, <timeout>); and what follows it
call_k_mutex_lock(t) ==
    /\ pc[t] = "kcall"
    /\ op[t] \in AcquireOps
    /\ \E rv \in {0, -EBUSY, PENDED} :
          /\ k_mutex_lock(t, TimeoutArg(t), rv)
          /\ IF rv = PENDED
             THEN /\ pc' = [pc EXCEPT ![t] = "blocked"]
                  /\ deadline' = [deadline EXCEPT ![t] = Expiry(TimeoutArg(t))]
                  /\ returned' = NoReturns
                  /\ UNCHANGED << op, req, timeout, held >>
             ELSE /\ Returns(One(t, ReturnOf(op[t], rv)))
                  /\ held' = [held EXCEPT ![t] = HeldAfter(@, ReturnOf(op[t], rv))]
    /\ UNCHANGED << kind, now >>
    /\ UNCHANGED << slabVars, threadVars >>

\* the bounded wait of a pended k_mutex_lock expires: it returns -EAGAIN
wait_timeout(t) ==
    /\ pc[t] = "blocked"
    /\ Expired(t)
    /\ wait_q' = Remove(wait_q, t)
    /\ Returns(One(t, ReturnOf(op[t], -EAGAIN)))
    /\ held' = [held EXCEPT ![t] = HeldAfter(@, ReturnOf(op[t], -EAGAIN))]
    /\ UNCHANGED << kind, lock_count, owner, now >>
    /\ UNCHANGED << slabVars, threadVars >>

\* the calls that return when t calls k_mutex_unlock and w is handed the mutex
UnlockReturns(t, w) ==
    [x \in {t} \cup ({w} \ {NoThread}) |->
        IF x = t THEN Res("unlock", "void", 0) ELSE ReturnOf(op[x], 0)]

\* k_mutex_unlock(m_mtx_ptr);
call_k_mutex_unlock(t) ==
    /\ pc[t] = "idle"
    /\ \E w \in Threads \cup {NoThread} :
          /\ k_mutex_unlock(t, w)
          /\ Returns(UnlockReturns(t, w))
          /\ held' = [x \in Threads |->
                        IF x = t THEN (IF held[t] > 0 THEN held[t] - 1 ELSE 0)
                        ELSE IF x = w THEN HeldAfter(held[x], UnlockReturns(t, w)[x])
                        ELSE held[x]]
    /\ UNCHANGED << kind, now >>
    /\ UNCHANGED << slabVars, threadVars >>

\* mutex::unlock
mutex_unlock(t) ==
    /\ kind \in DerivedFromMutex
    /\ call_k_mutex_unlock(t)

\* recursive_mutex::unlock
recursive_mutex_unlock(t) ==
    /\ kind \in DerivedFromRecursiveMutex
    /\ call_k_mutex_unlock(t)

\* ------------------------------------------------------------------- clock
\* steady_clock advances by one millisecond; an expired wait is woken first.
\* Only the timed member functions read the clock.
Tick ==
    /\ kind \in TimedKinds
    /\ now < MaxTime
    /\ \A t \in Threads : pc[t] = "blocked" => ~Expired(t)
    /\ now' = now + 1
    /\ returned' = NoReturns
    /\ UNCHANGED << kind, lock_count, owner, wait_q, pc, op, req, timeout,
                    deadline, held >>
    /\ UNCHANGED << slabVars, threadVars >>

Next ==
    \/ \E t \in Threads :
          \/ mutex_lock(t)
          \/ mutex_try_lock(t)
          \/ \E d \in RelDurations : timed_mutex_try_lock_for(t, d)
          \/ \E a \in AbsTimes : timed_mutex_try_lock_until(t, a)
          \/ check_owner(t)
          \/ recursive_mutex_lock(t)
          \/ recursive_mutex_try_lock(t)
          \/ \E d \in RelDurations : recursive_timed_mutex_try_lock_for(t, d)
          \/ \E a \in AbsTimes : recursive_timed_mutex_try_lock_until(t, a)
          \/ call_k_mutex_lock(t)
          \/ wait_timeout(t)
          \/ mutex_unlock(t)
          \/ recursive_mutex_unlock(t)
    \/ Tick

Spec == Init /\ [][Next]_vars

\* --------------------------------------------------------- fair scheduling
\* a thread inside a member function runs on: its ownership check, its
\* kernel call, the expiry of its wait
Progress(t) == check_owner(t) \/ call_k_mutex_lock(t) \/ wait_timeout(t)

\* a thread that holds the mutex calls unlock
Unlocks(t) == held[t] > 0 /\ (mutex_unlock(t) \/ recursive_mutex_unlock(t))

\* a thread that holds the mutex once calls unlock: it gives the mutex up
Releases(t) == held[t] = 1 /\ (mutex_unlock(t) \/ recursive_mutex_unlock(t))

\* Every thread inside a call is scheduled again, and every thread that
\* acquires the mutex eventually unlocks it, as often as it locked it.
Fairness ==
    \A t \in Threads :
        /\ WF_vars(Progress(t))
        /\ SF_vars(Unlocks(t))
        /\ SF_vars(Releases(t))

FairSpec == Init /\ [][Next]_vars /\ Fairness

\* ------------------------------------------------------- a rejecting kernel
\* k_mutex_lock refuses the call of thread t with a code that is neither
\* -EBUSY nor -EAGAIN; the mutex is left as it was
k_mutex_lock_rejected(t, rv) ==
    /\ rv = -EINVAL
    /\ UNCHANGED << lock_count, owner, wait_q >>

\* int rv = k_mutex_lock(m_mtx_ptr, <timeout>); and what follows it, when the
\* kernel refuses the call
call_k_mutex_lock_rejected(t) ==
    /\ pc[t] = "kcall"
    /\ op[t] \in AcquireOps
    /\ \E rv \in {-EINVAL} :
          /\ k_mutex_lock_rejected(t, rv)
          /\ Returns(One(t, ReturnOf(op[t], rv)))
          /\ held' = [held EXCEPT ![t] = HeldAfter(@, ReturnOf(op[t], rv))]
    /\ UNCHANGED << kind, now >>
    /\ UNCHANGED << slabVars, threadVars >>

FaultNext ==
    \/ Next
    \/ \E t \in Threads : call_k_mutex_lock_rejected(t)

FaultSpec == Init /\ [][FaultNext]_vars

\* ---------------------------------------------------------------- mutex_slab
\* one more object than the slab has blocks, so that the slab can run out
ObjIds == 1..(SlabMaxCount + 1)
NoObject == [ptr |-> 0, type |-> "none"]
Live == {o \in ObjIds : obj[o].ptr # 0}

\* k_mem_slab_alloc(&mutex_slab, &ptr, K_NO_WAIT): rv is what it returns and
\* ptr the block it hands out (0: none)
k_mem_slab_alloc(rv, ptr) ==
    \/ /\ slab_free # << >>
       /\ rv = 0
       /\ ptr = Head(slab_free)
       /\ slab_free' = Tail(slab_free)
    \/ /\ slab_free = << >>
       /\ rv = -ENOMEM
       /\ ptr = 0
       /\ UNCHANGED slab_free

\* k_mem_slab_free(&mutex_slab, &ptr)
k_mem_slab_free(ptr) == slab_free' = << ptr >> \o slab_free

\* operator new of class c (slab): the object o is created in the block
operator_new(c, o) ==
    /\ obj[o].ptr = 0
    /\ \E rv \in {0, -ENOMEM}, ptr \in 0..SlabMaxCount :
          /\ k_mem_slab_alloc(rv, ptr)
          /\ IF rv # 0
             THEN /\ new_result' = "bad_alloc"
                  /\ UNCHANGED obj
             ELSE /\ new_result' = "ok"
                  /\ obj' = [obj EXCEPT ![o] = [ptr |-> ptr, type |-> c]]
    /\ UNCHANGED << kind, lock_count, owner, wait_q, pc, op, req, timeout,
                    deadline, held, returned, now >>
    /\ UNCHANGED threadVars

\* mutant: the block is not given back to the slab
operator_delete_leaks(c, o) ==
    /\ obj[o].ptr # 0
    /\ obj[o].type = c
    /\ obj' = [obj EXCEPT ![o] = NoObject]
    /\ new_result' = "none"
    /\ UNCHANGED slab_free
    /\ UNCHANGED << kind, lock_count, owner, wait_q, pc, op, req, timeout,
                    deadline, held, returned, now >>
    /\ UNCHANGED threadVars

\* operator delete of class c (slab)
operator_delete(c, o) ==
    /\ obj[o].ptr # 0
    /\ obj[o].type = c
    /\ k_mem_slab_free(obj[o].ptr)
    /\ obj' = [obj EXCEPT ![o] = NoObject]
    /\ new_result' = "none"
    /\ UNCHANGED << kind, lock_count, owner, wait_q, pc, op, req, timeout,
                    deadline, held, returned, now >>
    /\ UNCHANGED threadVars

SlabNext ==
    \E c \in Kinds, o \in ObjIds :
        \/ operator_new(c, o)
        \/ operator_delete(c, o)

SlabSpec == Init /\ [][SlabNext]_vars

\* -------------------------------------------------------------- zstd::thread
mutexVars == << kind, lock_count, owner, wait_q, pc, op, req, timeout,
                deadline, held, returned, now >>

\* thread::get_id: the id of an empty thread object is id(), m_id{0}
get_id(h) == m_id[h]

\* thread::joinable
joinable(h) == get_id(h) # NoThread

\* a kernel thread whose stack the pool can hand out
FreeKThreads == {k \in KThreads : k_state[k] = "free"}

\* what every member function leaves alone
ThreadFrame ==
    /\ ~terminated
    /\ UNCHANGED mutexVars
    /\ UNCHANGED slabVars

\* thread::thread() noexcept: an empty thread object
thread_default_ctor(h) ==
    /\ ~alive[h]
    /\ alive' = [alive EXCEPT ![h] = TRUE]
    /\ m_id' = [m_id EXCEPT ![h] = NoThread]
    /\ t_result' = TRes("thread", h, "void")
    /\ UNCHANGED << joining, k_state, k_detached, terminated >>
    /\ ThreadFrame

\* thread::thread(F&&, Args&&...): a kernel thread is started on a stack of
\* the pool, or the construction fails when the pool has none left
thread_ctor(h) ==
    /\ ~alive[h]
    /\ IF FreeKThreads = {}
       THEN /\ t_result' = TRes("thread", h, "OutOfResources")
            /\ UNCHANGED << alive, m_id, k_state, k_detached >>
       ELSE \E k \in FreeKThreads :
               /\ alive' = [alive EXCEPT ![h] = TRUE]
               /\ m_id' = [m_id EXCEPT ![h] = k]
               /\ k_state' = [k_state EXCEPT ![k] = "running"]
               /\ k_detached' = [k_detached EXCEPT ![k] = FALSE]
               /\ t_result' = TRes("thread", h, "void")
    /\ UNCHANGED << joining, terminated >>
    /\ ThreadFrame

\* the callable of kernel thread k returns; the kernel takes back the stack
\* of a detached thread
entry_returns(k) ==
    /\ k_state[k] = "running"
    /\ k_state' = [k_state EXCEPT ![k] = IF k_detached[k] THEN "free" ELSE "exited"]
    /\ k_detached' = [k_detached EXCEPT ![k] = FALSE]
    /\ t_result' = NoTRes
    /\ UNCHANGED << alive, m_id, joining, terminated >>
    /\ ThreadFrame

\* thread::~thread(): fatal while the object is joinable
thread_dtor(h) ==
    /\ alive[h] /\ ~joining[h]
    /\ IF joinable(h)
       THEN /\ terminated' = TRUE
            /\ t_result' = TRes("~thread", h, "fatal")
            /\ UNCHANGED alive
       ELSE /\ alive' = [alive EXCEPT ![h] = FALSE]
            /\ t_result' = TRes("~thread", h, "void")
            /\ UNCHANGED terminated
    /\ UNCHANGED << m_id, joining, k_state, k_detached >>
    /\ ThreadFrame

\* thread::thread(thread&&) noexcept: h is constructed from o
thread_move_ctor(h, o) ==
    /\ h # o /\ ~alive[h] /\ alive[o] /\ ~joining[o]
    /\ alive' = [alive EXCEPT ![h] = TRUE]
    /\ m_id' = [m_id EXCEPT ![h] = m_id[o], ![o] = NoThread]
    /\ t_result' = TMove("thread", h, o, "void")
    /\ UNCHANGED << joining, k_state, k_detached, terminated >>
    /\ ThreadFrame

\* mutant: the association of a joinable destination is overwritten
thread_move_assign_overwrites(h, o) ==
    /\ h # o /\ alive[h] /\ alive[o] /\ ~joining[h] /\ ~joining[o]
    /\ m_id' = [m_id EXCEPT ![h] = m_id[o], ![o] = NoThread]
    /\ t_result' = TMove("operator=", h, o, "void")
    /\ UNCHANGED << alive, joining, k_state, k_detached, terminated >>
    /\ ThreadFrame

\* thread& operator=(thread&&) noexcept: fatal while h is joinable
thread_move_assign(h, o) ==
    /\ h # o /\ alive[h] /\ alive[o] /\ ~joining[h] /\ ~joining[o]
    /\ IF joinable(h)
       THEN /\ terminated' = TRUE
            /\ t_result' = TMove("operator=", h, o, "fatal")
            /\ UNCHANGED m_id
       ELSE /\ m_id' = [m_id EXCEPT ![h] = m_id[o], ![o] = NoThread]
            /\ t_result' = TMove("operator=", h, o, "void")
            /\ UNCHANGED terminated
    /\ UNCHANGED << alive, joining, k_state, k_detached >>
    /\ ThreadFrame

\* void swap(thread&) noexcept
thread_swap(h, o) ==
    /\ h # o /\ alive[h] /\ alive[o] /\ ~joining[h] /\ ~joining[o]
    /\ m_id' = [m_id EXCEPT ![h] = m_id[o], ![o] = m_id[h]]
    /\ t_result' = TMove("swap", h, o, "void")
    /\ UNCHANGED << alive, joining, k_state, k_detached, terminated >>
    /\ ThreadFrame

\* mutant: join() on an empty thread object returns as if it had joined
thread_join_accepts_empty(h) ==
    /\ alive[h] /\ ~joining[h]
    /\ IF joinable(h)
       THEN /\ joining' = [joining EXCEPT ![h] = TRUE]
            /\ t_result' = NoTRes
       ELSE /\ t_result' = TRes("join", h, "void")
            /\ UNCHANGED joining
    /\ UNCHANGED << alive, m_id, k_state, k_detached, terminated >>
    /\ ThreadFrame

\* thread::join(): InvalidState on an empty thread object, else the caller
\* waits for the kernel thread
thread_join(h) ==
    /\ alive[h] /\ ~joining[h]
    /\ IF joinable(h)
       THEN /\ joining' = [joining EXCEPT ![h] = TRUE]
            /\ t_result' = NoTRes
       ELSE /\ t_result' = TRes("join", h, "InvalidState")
            /\ UNCHANGED joining
    /\ UNCHANGED << alive, m_id, k_state, k_detached, terminated >>
    /\ ThreadFrame

\* mutant: join() returns without waiting for the callable to return
join_return_early(h) ==
    /\ joining[h]
    /\ joining' = [joining EXCEPT ![h] = FALSE]
    /\ k_state' = [k_state EXCEPT ![m_id[h]] = "free"]
    /\ m_id' = [m_id EXCEPT ![h] = NoThread]
    /\ t_result' = TRes("join", h, "void")
    /\ UNCHANGED << alive, k_detached, terminated >>
    /\ ThreadFrame

\* the kernel thread has completed: join() returns, the thread object is
\* empty and the stack goes back to the pool
join_return(h) ==
    /\ joining[h]
    /\ k_state[m_id[h]] = "exited"
    /\ joining' = [joining EXCEPT ![h] = FALSE]
    /\ k_state' = [k_state EXCEPT ![m_id[h]] = "free"]
    /\ m_id' = [m_id EXCEPT ![h] = NoThread]
    /\ t_result' = TRes("join", h, "void")
    /\ UNCHANGED << alive, k_detached, terminated >>
    /\ ThreadFrame

\* thread::detach(): InvalidState on an empty thread object, else the kernel
\* thread runs on by itself
thread_detach(h) ==
    /\ alive[h] /\ ~joining[h]
    /\ IF joinable(h)
       THEN /\ m_id' = [m_id EXCEPT ![h] = NoThread]
            /\ k_state' = [k_state EXCEPT
                              ![m_id[h]] = IF @ = "exited" THEN "free" ELSE @]
            /\ k_detached' = [k_detached EXCEPT
                                 ![m_id[h]] = k_state[m_id[h]] = "running"]
            /\ t_result' = TRes("detach", h, "void")
       ELSE /\ t_result' = TRes("detach", h, "InvalidState")
            /\ UNCHANGED << m_id, k_state, k_detached >>
    /\ UNCHANGED << alive, joining, terminated >>
    /\ ThreadFrame

ThreadNext ==
    \/ \E h \in Handles :
          \/ thread_default_ctor(h)
          \/ thread_ctor(h)
          \/ thread_dtor(h)
          \/ \E o \in Handles : thread_move_ctor(h, o)
          \/ \E o \in Handles : thread_move_assign(h, o)
          \/ \E o \in Handles : thread_swap(h, o)
          \/ thread_join(h)
          \/ join_return(h)
          \/ thread_detach(h)
    \/ \E k \in KThreads : entry_returns(k)

ThreadSpec == Init /\ [][ThreadNext]_vars

\* a caller waiting in join() is scheduled again once the kernel thread has
\* completed
ThreadFairSpec == ThreadSpec /\ \A h \in Handles : WF_vars(join_return(h))

\* ==================================================================== claims
Holders == {t \in Threads : held[t] > 0}
Returned(t, o) == t \in DOMAIN returned /\ returned[t].op = o
IsDeadlock(r) == r.ret = "system_error" /\ r.code = EDEADLK

\* C1: on one mutex of any variant, under any interleaving of lock, try_lock,
\* try_lock_for, try_lock_until and unlock, at most one thread holds the
\* mutex; a lock count above zero has a valid thread as owner, which is the
\* holder; and for mutex and timed_mutex the lock count never exceeds 1.
C1_MutualExclusion ==
    /\ Cardinality(Holders) <= 1
    /\ lock_count > 0 => owner \in Threads /\ held[owner] = lock_count
    /\ \A t \in Holders : owner = t /\ lock_count = held[t]
    /\ kind \in DerivedFromMutex => lock_count <= 1

\* a thread holds the mutex while another is pended on it
C1_Witness ==
    \E t, u \in Threads :
        t # u /\ held[t] > 0 /\ owner = t /\ pc[u] = "blocked" /\ wait_q = << u >>

\* C2: on mutex and timed_mutex a thread that holds the lock and calls lock,
\* try_lock, try_lock_for or try_lock_until again gets EDEADLK: it never
\* reaches the kernel call (so never blocks), its ownership check finds it
\* the owner, and no acquire call of a holder returns true, false or void.
C2_ReentryDeadlock ==
    kind \in DerivedFromMutex =>
        \A t \in Threads :
            /\ held[t] > 0 => pc[t] \in {"idle", "chk_owner"}
            /\ held[t] > 0 /\ pc[t] = "chk_owner" => owner = t
            /\ t \in DOMAIN returned /\ returned[t].op \in AcquireOps =>
                  /\ returned[t].ret \in {"void", "true"} => held[t] = 1
                  /\ returned[t].ret = "false" => held[t] = 0
                  /\ held[t] > 0 /\ returned[t].ret \notin {"void", "true"}
                        => IsDeadlock(returned[t])

\* the holder's try_lock has just thrown EDEADLK
C2_Witness ==
    \E t \in Threads :
        /\ kind \in DerivedFromMutex
        /\ Returned(t, "try_lock")
        /\ IsDeadlock(returned[t])
        /\ held[t] = 1 /\ owner = t /\ lock_count = 1

\* C3: on recursive_mutex and recursive_timed_mutex the owner's lock calls
\* all succeed without blocking, the thread stays the owner with lock count
\* equal to its locks minus its unlocks until that reaches zero, and a
\* try_lock of another thread returns false as long as it is above zero.
C3_RecursiveOwnership ==
    kind \in DerivedFromRecursiveMutex =>
        \A t \in Threads :
            /\ held[t] > 0 => owner = t /\ lock_count = held[t] /\ pc[t] # "blocked"
            /\ held[t] = 0 => owner # t
            /\ Returned(t, "lock") => returned[t].ret = "void" /\ owner = t
            /\ \A u \in Threads \ {t} :
                  held[t] > 0 /\ Returned(u, "try_lock") => returned[u].ret = "false"

\* the owner has locked MaxDepth times and another thread's try_lock failed
C3_Witness ==
    \E t, u \in Threads :
        /\ kind \in DerivedFromRecursiveMutex
        /\ t # u /\ held[t] = MaxDepth /\ lock_count = MaxDepth /\ MaxDepth > 1
        /\ Returned(u, "try_lock") /\ returned[u].ret = "false"

\* C4: on a plain mutex a try_lock of B returns false (no error, no success)
\* exactly when another thread holds the mutex, and returns true, making B
\* the owner, when nobody holds it.
C4_TryLockContention ==
    kind = "mutex" =>
        \A b \in Threads :
            Returned(b, "try_lock") =>
                /\ (\E a \in Threads \ {b} : held[a] > 0) => returned[b].ret = "false"
                /\ returned[b].ret = "false" =>
                      \E a \in Threads \ {b} : held[a] > 0 /\ owner = a
                /\ (\A a \in Threads : a # b => held[a] = 0) /\ ~IsDeadlock(returned[b])
                      => returned[b].ret = "true" /\ owner = b /\ held[b] = 1

\* B's try_lock has just returned false while A holds the plain mutex
C4_Witness ==
    \E a, b \in Threads :
        /\ kind = "mutex" /\ a # b
        /\ held[a] = 1 /\ owner = a
        /\ Returned(b, "try_lock") /\ returned[b].ret = "false"

\* ---- timed waits
\* the wait of e milliseconds is no shorter than the requested duration r,
\* up to one millisecond
WaitedEnough(r, e) ==
    IF IsNegative(r.count) THEN TRUE
    ELSE IF ~FitsInt(r.count) THEN FALSE
    ELSE IF r.period = "us" THEN AsInt(r.count) <= (e + 1) * 1000
    ELSE AsInt(r.count) <= e + 1

\* clock value at which the pended call of t entered the kernel
WaitStart(t) == IF timeout[t] > 0 THEN deadline[t] - timeout[t] ELSE deadline[t]

\* C5: a try_lock_for(d) on a timed mutex held by another thread for the
\* whole wait returns false no earlier than d after it began to wait (up to
\* one clock unit), and never returns true while another thread holds.
C5_TimedWaitNotEarly ==
    [][\A t \in Threads :
          pc[t] = "blocked" /\ op[t] = "try_lock_for" /\ t \in DOMAIN returned' =>
              /\ returned'[t].ret = "false" => WaitedEnough(req[t], now - WaitStart(t))
              /\ returned'[t].ret = "true" => owner' = t]_vars

\* C6: for every duration and deadline, also zero, negative or past, a
\* try_lock_for / try_lock_until on a mutex held by another thread never
\* waits indefinitely: its kernel wait has an expiry.
C6_NeverWaitsForever ==
    \A t \in Threads :
        pc[t] = "blocked" /\ op[t] \in TimedOps => deadline[t] # K_FOREVER

\* largest value of the kernel's 32-bit signed millisecond timeout
TimeoutMax == (HalfLimb - 1) * Limb + (Limb - 1)

\* C7: the conversion to the kernel timeout saturates: a requested duration
\* above the largest timeout is passed as the largest timeout.
C7_ConversionSaturates ==
    \A t \in Threads :
        /\ pc[t] \in {"kcall", "blocked"}
        /\ op[t] = "try_lock_for"
        /\ ~IsNegative(duration_cast_milliseconds(req[t]))
        /\ ~FitsInt(duration_cast_milliseconds(req[t]))
        => timeout[t] = TimeoutMax

\* C8: a duration given in microseconds is converted to the next whole
\* millisecond at or above it: the kernel timeout is never shorter than the
\* requested wait.
C8_ConversionRoundsUp ==
    \A t \in Threads :
        /\ pc[t] \in {"kcall", "blocked"}
        /\ op[t] = "try_lock_for"
        /\ req[t].period = "us"
        /\ FitsInt(req[t].count) /\ ~IsNegative(req[t].count)
        => timeout[t] * 1000 >= AsInt(req[t].count)

\* C9: an unlock by a thread that does not hold the mutex is reported to the
\* caller as an error and leaves lock count and owner as they were.
C9_UnlockNotOwnerReported ==
    [][\A t \in Threads :
          pc[t] = "idle" /\ held[t] = 0 /\ returned' # returned
                /\ t \in DOMAIN returned' /\ returned'[t].op = "unlock" =>
              /\ returned'[t].ret = "system_error"
              /\ lock_count' = lock_count
              /\ owner' = owner]_vars

\* C10: with a slab of SlabMaxCount blocks shared by the four classes,
\* operator new fails only when SlabMaxCount objects are live and never
\* hands out a block that is live or out of range; every block is either
\* free or live, once (no leak, no double allocation).
C10_SlabCapacity ==
    /\ new_result = "bad_alloc" => Cardinality(Live) = SlabMaxCount
    /\ Cardinality(Live) <= SlabMaxCount
    /\ \A o \in Live : obj[o].ptr \in 1..SlabMaxCount
    /\ \A o, q \in Live : o # q => obj[o].ptr # obj[q].ptr
    /\ Len(slab_free) + Cardinality(Live) = SlabMaxCount
    /\ \A i \in 1..Len(slab_free) : \A o \in Live : slab_free[i] # obj[o].ptr
    /\ \A i, j \in 1..Len(slab_free) : i # j => slab_free[i] # slab_free[j]

\* SlabMaxCount objects of more than one class are live and one more
\* operator new has just failed
C10_Witness ==
    /\ new_result = "bad_alloc"
    /\ Cardinality(Live) = SlabMaxCount
    /\ \E o, q \in Live : obj[o].type # obj[q].type

\* ---- non-blocking and failing acquires
InWaitQ(t) == \E i \in 1..Len(wait_q) : wait_q[i] = t

\* C11: try_lock on every variant never suspends the caller: a thread inside
\* try_lock is at its ownership check or at its kernel call, never pended
\* and never on the wait queue, and its kernel call returns in that step
\* with true, false or an error.
C11_TryLockNeverSuspends ==
    \A t \in Threads :
        /\ op[t] = "try_lock" => pc[t] \in {"chk_owner", "kcall"} /\ ~InWaitQ(t)
        /\ Returned(t, "try_lock") =>
              /\ returned[t].ret \in {"true", "false", "system_error"}
              /\ pc[t] = "idle" /\ ~InWaitQ(t)

\* a try_lock on a timed mutex held by another thread has returned false at
\* once, the caller not being on the wait queue
C11_Witness ==
    \E t, u \in Threads :
        /\ kind = "timed_mutex" /\ t # u
        /\ owner = u /\ lock_count = 1
        /\ Returned(t, "try_lock") /\ returned[t].ret = "false"
        /\ pc[t] = "idle" /\ ~InWaitQ(t)

\* the codes with which k_mutex_lock reports busy and timed out
OrdinaryCodes == {0, -EBUSY, -EAGAIN}

\* C12: when the kernel acquire call of lock, try_lock, try_lock_for or
\* try_lock_until returns a code that is neither success nor busy nor timed
\* out, the call throws an error carrying that code; it never returns false
\* or succeeds.
C12_KernelRejectedReported ==
    \A t \in DOMAIN returned :
        returned[t].op \in AcquireOps /\ returned[t].rv \notin OrdinaryCodes =>
            /\ returned[t].ret = "system_error"
            /\ returned[t].code = -returned[t].rv

\* C13: on recursive_mutex and recursive_timed_mutex no acquire call ends in
\* EDEADLK, and the kernel call of lock, try_lock, try_lock_for or
\* try_lock_until made by the thread that owns the mutex returns success in
\* that step, without pending, the owner unchanged and the lock count one
\* higher.
C13_RecursiveReentrySucceeds ==
    [][\A t \in Threads :
          kind \in DerivedFromRecursiveMutex =>
              /\ t \in DOMAIN returned' /\ returned'[t].op \in AcquireOps
                    => ~IsDeadlock(returned'[t])
              /\ owner = t /\ lock_count > 0 /\ pc[t] # "idle" /\ pc'[t] # pc[t] =>
                    /\ pc[t] = "kcall" /\ pc'[t] = "idle"
                    /\ t \in DOMAIN returned'
                    /\ returned'[t].ret \in {"void", "true"}
                    /\ owner' = t
                    /\ lock_count' = lock_count + 1
                    /\ wait_q' = wait_q]_vars

\* the owner of a recursive_timed_mutex has re-entered it with try_lock_until
C13_Witness ==
    \E t \in Threads :
        /\ kind = "recursive_timed_mutex"
        /\ Returned(t, "try_lock_until") /\ returned[t].ret = "true"
        /\ owner = t /\ lock_count = 2 /\ held[t] = 2

\* ---- progress
BlockedInLock(t) == pc[t] = "blocked" /\ op[t] = "lock"

\* C14: lock returns only to the owner (or throws EDEADLK to the thread
\* that already holds the mutex), and under fair scheduling with holders
\* that eventually unlock, every thread pended in lock eventually becomes
\* the owner.
C14_LockEventuallyOwns ==
    /\ [](\A t \in Threads :
             Returned(t, "lock") =>
                 \/ returned[t].ret = "void" /\ owner = t /\ held[t] > 0
                 \/ IsDeadlock(returned[t]) /\ owner = t /\ held[t] > 0)
    /\ \A t \in Threads : BlockedInLock(t) ~> (owner = t /\ held[t] > 0)

\* a thread that was pended in lock has been handed the mutex by the unlock
\* of its holder
C14_Witness ==
    \E t, u \in Threads :
        /\ t # u
        /\ Returned(u, "unlock")
        /\ Returned(t, "lock") /\ returned[t].ret = "void"
        /\ owner = t /\ held[t] = 1 /\ held[u] = 0

\* C18: the ownership check of mutex and timed_mutex has no false positive:
\* a thread that does not hold the mutex never finds itself the owner at the
\* second read of the check, and an acquire call that ended in EDEADLK was
\* made by the thread that holds and owns the mutex.
C18_NoFalseDeadlock ==
    \A t \in Threads :
        /\ held[t] = 0 /\ pc[t] \in {"chk_owner", "kcall"} => owner # t
        /\ t \in DOMAIN returned /\ returned[t].op \in AcquireOps
              /\ IsDeadlock(returned[t])
              => held[t] > 0 /\ owner = t /\ lock_count > 0

\* a thread that holds nothing has read lock_count > 0 and stands before the
\* read of the owner, while the holder has unlocked in between
C18_Witness ==
    \E t \in Threads :
        /\ kind \in DerivedFromMutex
        /\ pc[t] = "chk_owner" /\ held[t] = 0
        /\ lock_count = 0 /\ owner = NoThread

\* the call of t that returns in this step did not obtain ownership
FailedAcquire(t) ==
    /\ pc[t] # "idle"
    /\ t \in DOMAIN returned'
    /\ returned'[t].op \in AcquireOps
    /\ returned'[t].ret \in {"false", "system_error"}

\* C19: the step in which an acquire call fails (try_lock returning false,
\* try_lock_for / try_lock_until timing out, lock or try_lock throwing
\* EDEADLK) leaves owner and lock count as they were, and the caller is
\* then not on the wait queue and holds what it held.
C19_FailedAcquireChangesNothing ==
    [][\A t \in Threads :
          FailedAcquire(t) =>
              /\ lock_count' = lock_count
              /\ owner' = owner
              /\ ~InWaitQ(t)'
              /\ wait_q' = Remove(wait_q, t)
              /\ held'[t] = held[t]]_vars

\* a try_lock_until on a timed mutex held by another thread has timed out:
\* the holder still owns it once and nobody is queued
C19_Witness ==
    \E t, u \in Threads :
        /\ kind = "timed_mutex" /\ t # u /\ now > 0
        /\ Returned(t, "try_lock_until") /\ returned[t].ret = "false"
        /\ returned[t].rv = -EAGAIN
        /\ owner = u /\ lock_count = 1 /\ held[u] = 1 /\ wait_q = << >>

\* ---- thread objects
\* C15: join and detach are valid only on a joinable thread object: on an
\* empty one (default-constructed, or already joined or detached) they
\* yield InvalidState and change nothing; on a joinable one they succeed and
\* leave it empty, no thread object referring to that kernel thread any
\* more, so that it is joined or detached at most once.
C15_JoinDetachOnlyWhenRunning ==
    [][\A h \in Handles :
          t_result'.h = h /\ t_result'.op \in {"join", "detach"} =>
              /\ ~joinable(h) =>
                    /\ t_result'.ret = "InvalidState"
                    /\ m_id' = m_id /\ k_state' = k_state
                    /\ k_detached' = k_detached
              /\ joinable(h) =>
                    /\ t_result'.ret = "void"
                    /\ ~joinable(h)'
                    /\ \A o \in Handles : m_id'[o] # m_id[h]]_vars

\* a join on an empty thread object has just yielded InvalidState while
\* another thread object is joinable
C15_Witness ==
    \E h, o \in Handles :
        /\ t_result = TRes("join", h, "InvalidState")
        /\ alive[h] /\ ~joinable(h)
        /\ h # o /\ joinable(o)

\* C16: join on a joinable thread object returns only once the callable of
\* its kernel thread has returned, and once that has returned a caller
\* waiting in join eventually returns (unless a fatal error ends the
\* program first).
C16_JoinWaitsForCompletion ==
    /\ [][\A h \in Handles :
             joining[h] /\ t_result' = TRes("join", h, "void") =>
                 k_state[m_id[h]] = "exited"]_vars
    /\ \A h \in Handles :
          (joining[h] /\ k_state[m_id[h]] = "exited") ~> (~joining[h] \/ terminated)

\* a join that waited has returned: the thread object is empty and the
\* stack of its kernel thread is back in the pool
C16_Witness ==
    \E h \in Handles :
        /\ t_result = TRes("join", h, "void")
        /\ alive[h] /\ ~joinable(h) /\ ~joining[h]
        /\ FreeKThreads = KThreads

\* no two thread objects have the same kernel thread, and a joinable one is
\* constructed and refers to a kernel thread that is not free
SingleOwner ==
    \A h \in Handles :
        joinable(h) =>
            /\ alive[h]
            /\ k_state[m_id[h]] # "free"
            /\ \A o \in Handles \ {h} : get_id(o) # get_id(h)

\* C17: thread objects are single-owner: no two of them refer to the same
\* live kernel thread; a move gives the association of the source to the
\* destination and leaves the source empty (its get_id is the id of no
\* thread); a move into a joinable destination is reported as fatal and
\* changes no association.
C17_SingleOwnerMove ==
    /\ []SingleOwner
    /\ [][\A h, o \in Handles :
             t_result'.h = h /\ t_result'.src = o
                   /\ t_result'.op \in {"thread", "operator="} =>
                 /\ t_result'.op = "operator=" /\ joinable(h) =>
                       t_result'.ret = "fatal" /\ m_id' = m_id
                 /\ t_result'.ret = "fatal" => joinable(h) /\ m_id' = m_id
                 /\ t_result'.ret = "void" =>
                       /\ get_id(h)' = get_id(o)
                       /\ get_id(o)' = NoThread]_vars

\* a joinable thread object has been moved into an empty one
C17_Witness ==
    \E h, o \in Handles :
        /\ t_result = TMove("operator=", h, o, "void")
        /\ joinable(h) /\ alive[o] /\ get_id(o) = NoThread
        /\ k_state[get_id(h)] = "running"

====
